---- MODULE Spec2Model ----
(***************************************************************************)
(* pyformat (src/pyformat.py): the formatting pipeline (formatters,        *)
(* format_code), the per-file unit (read_file, format_file, _format_file), *)
(* the batch dispatcher (format_multiple_files) and the entry point        *)
(* (_main) as a state machine.                                             *)
(*                                                                         *)
(* A text is a sequence of lines.  The external formatters are opaque to   *)
(* pyformat; a line is abstracted to the one defect it carries, and each   *)
(* formatter to the defects it repairs:                                    *)
(*   "imp"      unused standard-library import (autoflake deletes it)      *)
(*   "imp3"     unused third-party import (autoflake, only with            *)
(*              remove_all_unused_imports)                                 *)
(*   "var"      unused variable (autoflake, only with                      *)
(*              remove_unused_variables)                                   *)
(*   "comma"    multi-line call without a trailing comma; add-trailing-    *)
(*              comma terminates it and leaves it to be re-wrapped         *)
(*   "style"    a line autopep8 re-wraps or re-indents                     *)
(*   "doc"      a docstring docformatter reflows                           *)
(*   "quote"    a string literal unify re-quotes                           *)
(*   "unsorted" an import isort moves into place                           *)
(*   "ok"       a line no formatter touches                                *)
(*                                                                         *)
(* Files hold decoded text: read_file's detection of the encoding and the  *)
(* re-encoding of the in-place write are not modelled.  The options        *)
(* apply_config and filename only reach autopep8.parse_args and are left   *)
(* out of formatters; exclude_patterns keeps its default, the empty list.  *)
(* autopep8.find_files and the multiprocessing pool are modelled by what   *)
(* they do for the calls made here: find_files yields the names as given   *)
(* (a directory replaced by its files when recursive), pool.map runs up to *)
(* args.jobs tasks at a time, one task per name, and re-raises a task's    *)
(* exception once the tasks have run.                                      *)
(***************************************************************************)
EXTENDS Integers, Sequences, FiniteSets

VARIABLES
    args,            \* the argparse namespace returned by parse_args
    disk,            \* decoded contents of the regular files on disk
    stdin,           \* what is left to read on the process's standard input
    pc,              \* position of _main
    filenames,       \* the list autopep8.find_files resolved
    tasks,           \* the parameter tuples handed to _format_file, in order
    next,            \* index of the next task to start
    unit,            \* per task: phase and the source read_file returned
    result,          \* per task: the (changed, error) pair, <<>> while none
    raised,          \* an exception escaped a task of the pool
    fault,           \* per task: the exception raised while processing it
    standard_out,    \* the caller's primary sink
    standard_error,  \* the caller's error sink
    sys_stderr,      \* the process-global sys.stderr the pool workers use
    started,         \* task indexes in the order their processing began
    io,              \* the file-system accesses made: <<op, task, file>>
    changed_and_error, \* the pair format_multiple_files returned
    status,          \* _main's return value, -1 while it has returned none
    call             \* one format_code call: its input, the fixes run, output

vars == <<args, disk, stdin, pc, filenames, tasks, next, unit, result, raised,
          fault, standard_out, standard_error, sys_stderr, started, io,
          changed_and_error, status, call>>

(***************************************************************************)
(* Bounds of the model.                                                    *)
(***************************************************************************)
MaxFiles == 2        \* number of files arguments on the command line
MaxJobs == 2         \* largest --jobs value
MaxAggressive == 1   \* largest number of -a flags
MaxLen == 2          \* lines of a text handed to format_code directly

(***************************************************************************)
(* The file system the run sees.                                           *)
(***************************************************************************)
STDIN == "-"
Idents == {STDIN, "a.py", "d", "d/b.py"}
DiskFiles == {"a.py", "d/b.py"}
Lines == {"ok", "imp", "imp3", "var", "comma", "style", "doc", "quote",
          "unsorted"}
SrcTexts == {<<>>, <<"ok">>, <<"style">>}

isdir(name) == name = "d"

\* os.walk(name): the files below a directory, joined to its path.
walk(name) == IF name = "d" THEN <<"d/b.py">> ELSE <<>>

\* fnmatch of a name against the exclusion patterns (literal patterns).
excluded(name, exclude) == \E k \in DOMAIN exclude : exclude[k] = name

(***************************************************************************)
(* The formatters.                                                         *)
(***************************************************************************)
Replace(code, from, to) ==
    [k \in DOMAIN code |-> IF code[k] = from THEN to ELSE code[k]]

autoflake_fix_code(code, remove_all_unused_imports, remove_unused_variables) ==
    LET keep(l) == /\ l # "imp"
                   /\ ~(l = "imp3" /\ remove_all_unused_imports)
                   /\ ~(l = "var" /\ remove_unused_variables)
    IN  SelectSeq(code, keep)

add_trailing_comma_to_code(code) == Replace(code, "comma", "style")

autopep8_fix_code(code) == Replace(code, "style", "ok")

docformatter_format_code(code) == Replace(code, "doc", "ok")

unify_format_code(code) == Replace(code, "quote", "ok")

_format_by_isort(code) == Replace(code, "unsorted", "ok")

\* A fix: the formatter's name and the options its closure captured.
Fix(fn, all, variables) == [fn |-> fn, all |-> all, variables |-> variables]

apply(fix, code) ==
    CASE fix.fn = "autoflake" ->
            autoflake_fix_code(code, fix.all, fix.variables)
      [] fix.fn = "add_trailing_comma" -> add_trailing_comma_to_code(code)
      [] fix.fn = "autopep8" -> autopep8_fix_code(code)
      [] fix.fn = "docformatter" -> docformatter_format_code(code)
      [] fix.fn = "unify" -> unify_format_code(code)
      [] fix.fn = "isort" -> _format_by_isort(code)

\* formatters with the trailing-comma fix yielded after autopep8's.
formatters_comma_late(aggressive, remove_all_unused_imports, remove_unused_variables, sort_imports, add_trailing_comma) ==
    (IF aggressive > 0
     THEN <<Fix("autoflake", remove_all_unused_imports,
                remove_unused_variables)>>
     ELSE <<>>)
    \o <<Fix("autopep8", FALSE, FALSE)>>
    \o (IF aggressive > 0 /\ add_trailing_comma
        THEN <<Fix("add_trailing_comma", FALSE, FALSE)>>
        ELSE <<>>)
    \o <<Fix("docformatter", FALSE, FALSE), Fix("unify", FALSE, FALSE)>>
    \o (IF sort_imports THEN <<Fix("isort", FALSE, FALSE)>> ELSE <<>>)

\* formatters(): the fixes it yields, in the order it yields them.
formatters(aggressive, remove_all_unused_imports, remove_unused_variables, sort_imports, add_trailing_comma) ==
    (IF aggressive > 0
     THEN <<Fix("autoflake", remove_all_unused_imports,
                remove_unused_variables)>>
          \o (IF add_trailing_comma
              THEN <<Fix("add_trailing_comma", FALSE, FALSE)>>
              ELSE <<>>)
     ELSE <<>>)
    \o <<Fix("autopep8", FALSE, FALSE)>>
    \o <<Fix("docformatter", FALSE, FALSE)>>
    \o <<Fix("unify", FALSE, FALSE)>>
    \o (IF sort_imports THEN <<Fix("isort", FALSE, FALSE)>> ELSE <<>>)

\* The for loop of format_code: formatted_source = fix(formatted_source).
RECURSIVE run_fixes(_, _)
run_fixes(fixes, formatted_source) ==
    IF fixes = <<>>
    THEN formatted_source
    ELSE run_fixes(Tail(fixes), apply(Head(fixes), formatted_source))

format_code(source, aggressive, remove_all_unused_imports, remove_unused_variables, sort_imports, add_trailing_comma) ==
    run_fixes(formatters(aggressive, remove_all_unused_imports,
                         remove_unused_variables, sort_imports,
                         add_trailing_comma),
              source)

is_stdin(filename) == filename = STDIN

(***************************************************************************)
(* _main: the checks made on the parsed arguments before any dispatch.     *)
(* The message printed on standard_error, "" when the arguments pass.      *)
(***************************************************************************)
\* The checks without the one on --jobs.
validation_error_no_jobs(a) ==
    IF a.aggressive = 0 /\ a.remove_all_unused_imports
    THEN "--remove-all-unused-imports requires --aggressive"
    ELSE IF a.aggressive = 0 /\ a.remove_unused_variables
    THEN "--remove-unused-variables requires --aggressive"
    ELSE IF a.aggressive = 0 /\ a.add_trailing_comma
    THEN "--add-trailing-comma requires --aggressive"
    ELSE ""

validation_error(a) ==
    IF a.jobs > 1 /\ ~a.in_place
    THEN "parallel jobs requires --in-place"
    ELSE IF a.aggressive = 0 /\ a.remove_all_unused_imports
    THEN "--remove-all-unused-imports requires --aggressive"
    ELSE IF a.aggressive = 0 /\ a.remove_unused_variables
    THEN "--remove-unused-variables requires --aggressive"
    ELSE IF a.aggressive = 0 /\ a.add_trailing_comma
    THEN "--add-trailing-comma requires --aggressive"
    ELSE ""

(***************************************************************************)
(* format_multiple_files: resolution of the names and the reduction.       *)
(***************************************************************************)
\* set(args.files): the distinct names; a set iterates in no given order.
Range(s) == {s[k] : k \in DOMAIN s}

Orders(S) ==
    {q \in [1..Cardinality(S) -> S] : \A j, k \in DOMAIN q : j # k => q[j] # q[k]}

\* autopep8.find_files: pops the head of the queue; a directory (when
\* recursive) is replaced by its files, appended to the queue; any other
\* name is yielded unless an exclusion pattern matches it.
RECURSIVE find_files(_, _, _)
find_files(queue, recursive, exclude) ==
    IF queue = <<>>
    THEN <<>>
    ELSE LET name == Head(queue) IN
         IF recursive /\ isdir(name)
         THEN find_files(Tail(queue) \o SelectSeq(walk(name), LAMBDA f : ~excluded(f, exclude)), recursive, exclude)
         ELSE IF excluded(name, exclude)
         THEN find_files(Tail(queue), recursive, exclude)
         ELSE <<name>> \o find_files(Tail(queue), recursive, exclude)

\* The task list built from the names, last name first.
task_list_reversed(names) ==
    [k \in DOMAIN names |-> names[Len(names) + 1 - k]]

\* [(name, args, ...) for name in filenames]: one task per name, in order.
task_list(names) == [k \in DOMAIN names |-> names[k]]

\* The reduction with the two flags exchanged.
reduce_swapped(res) ==
    << \E k \in DOMAIN res : res[k] # <<>> /\ res[k][2],
       \E k \in DOMAIN res : res[k] # <<>> /\ res[k][1] >>

\* (any(r[0] for r in result), any(r[1] for r in result))
reduce(res) ==
    << \E k \in DOMAIN res : res[k] # <<>> /\ res[k][1],
       \E k \in DOMAIN res : res[k] # <<>> /\ res[k][2] >>

\* An exit status taken from the changed flag.
exit_status_changed(pair) == IF pair[1] THEN 1 ELSE 0

\* return 1 if changed_and_error[1] else 0
exit_status(pair) == IF pair[2] THEN 1 ELSE 0

(***************************************************************************)
(* _format_file: the exceptions it handles and the pairs it returns.       *)
(***************************************************************************)
Exceptions == {"IOError", "Exception", "KeyboardInterrupt"}

\* A handler that catches every exception.
handled_all(exception) == TRUE

\* except IOError / except KeyboardInterrupt
handled(exception) == exception \in {"IOError", "KeyboardInterrupt"}

\* A handler that reports neither change nor error.
outcome_quiet(exception) == <<FALSE, FALSE>>

\* return (False, True), in both handlers
outcome_of(exception) == <<FALSE, TRUE>>

(***************************************************************************)
(* format_file: what it does with the formatted text.                      *)
(***************************************************************************)
\* The decision without the in-place stdin case.
output_action_no_stdin(filename, in_place, source, formatted_source) ==
    IF source # formatted_source
    THEN IF in_place THEN "write" ELSE "diff"
    ELSE "none"

\* The decision with the in-place write also printing the diff.
output_action_diff_always(filename, in_place, source, formatted_source) ==
    IF in_place /\ is_stdin(filename)
    THEN "stdout"
    ELSE IF source # formatted_source
    THEN IF in_place THEN "write+diff" ELSE "diff"
    ELSE "none"

output_action(filename, in_place, source, formatted_source) ==
    IF in_place /\ is_stdin(filename)
    THEN "stdout"
    ELSE IF source # formatted_source
    THEN IF in_place THEN "write" ELSE "diff"
    ELSE "none"

\* format_file's return value for each action.
changed_by(action) == action # "none"

(***************************************************************************)
(* The initial states: the arguments parse_args returned (jobs >= 1, at    *)
(* least one file), the files on disk and the text waiting on stdin.       *)
(***************************************************************************)
Texts == UNION {[1..n -> Lines] : n \in 0..MaxLen}

FileLists == UNION {[1..n -> Idents] : n \in 1..MaxFiles}

Namespaces ==
    [in_place : BOOLEAN, recursive : BOOLEAN, aggressive : 0..MaxAggressive,
     remove_all_unused_imports : BOOLEAN, remove_unused_variables : BOOLEAN,
     sort_imports : BOOLEAN, add_trailing_comma : BOOLEAN, jobs : 1..MaxJobs,
     verbose : BOOLEAN, exclude_patterns : {<<>>}, files : FileLists]

\* The options that select no optional formatter and print no progress.
Plain(a) ==
    /\ a.aggressive = 0
    /\ ~a.remove_all_unused_imports
    /\ ~a.remove_unused_variables
    /\ ~a.add_trailing_comma
    /\ ~a.sort_imports
    /\ ~a.verbose

NoCall == [source |-> <<>>, fixes |-> <<>>, formatted_source |-> <<>>, done |-> FALSE]

Idle ==
    /\ filenames = <<>>
    /\ tasks = <<>>
    /\ next = 1
    /\ unit = <<>>
    /\ result = <<>>
    /\ raised = FALSE
    /\ fault = <<>>
    /\ standard_out = <<>>
    /\ standard_error = <<>>
    /\ sys_stderr = <<>>
    /\ started = <<>>
    /\ io = {}
    /\ changed_and_error = <<>>
    /\ status = -1

\* Every combination of options on a batch of one file.
InitOptions ==
    /\ args \in {a \in Namespaces : a.files = <<"a.py">>}
    /\ disk \in {[f \in DiskFiles |-> IF f = "a.py" THEN t ELSE <<"ok">>] : t \in {<<"style">>, <<"comma">>}}
    /\ stdin = <<>>

\* Every batch, file contents and stdin text under the plain options.
InitBatch ==
    /\ args \in {a \in Namespaces : Plain(a)}
    /\ disk \in [DiskFiles -> SrcTexts]
    /\ stdin \in SrcTexts

Init ==
    /\ InitOptions \/ InitBatch
    /\ pc = "main"
    /\ call = NoCall
    /\ Idle

(***************************************************************************)
(* The run.                                                                *)
(***************************************************************************)
Parallel == args.jobs > 1

InFlight == Cardinality({k \in DOMAIN unit : unit[k].phase = "read"})

Queued == [phase |-> "queued", source |-> <<>>]

\* print(..., file=standard_error): a pool worker was handed None and
\* prints on sys.stderr, the sequential run on the caller's sink.
print_to_error(entries) ==
    IF Parallel
    THEN sys_stderr' = sys_stderr \o entries /\ UNCHANGED standard_error
    ELSE standard_error' = standard_error \o entries /\ UNCHANGED sys_stderr

Entry(kind, name) == [kind |-> kind, name |-> name]

Verbose(kind, name) == IF args.verbose THEN <<Entry(kind, name)>> ELSE <<>>

\* An exception leaves format_file in task i: the except clauses of
\* _format_file return a pair; anything else leaves _format_file too, ends
\* the list comprehension of a sequential run at once and is re-raised by
\* pool.map once the pool has run its tasks.
Raise(i, where, exception) ==
    /\ fault' = [fault EXCEPT ![i] = <<where, exception>>]
    /\ unit' = [unit EXCEPT ![i].phase = "done"]
    /\ IF handled(exception)
       THEN /\ result' = [result EXCEPT ![i] = outcome_of(exception)]
            /\ UNCHANGED <<pc, raised>>
       ELSE /\ result' = result
            /\ IF Parallel
               THEN raised' = TRUE /\ pc' = pc
               ELSE pc' = "raised" /\ raised' = raised

Diagnostic(exception, name) ==
    IF exception = "IOError" THEN <<Entry("error", name)>> ELSE <<>>

\* _main up to the call of format_multiple_files, and that function up to
\* the dispatch of its tasks.
_main ==
    /\ pc = "main"
    /\ IF validation_error(args) # ""
       THEN /\ standard_error' = Append(standard_error, Entry("usage", validation_error(args)))
            /\ status' = 2
            /\ pc' = "exit"
            /\ UNCHANGED <<filenames, tasks, unit, result, fault>>
       ELSE /\ \E order \in Orders(Range(args.files)) :
                 filenames' = find_files(order, args.recursive, args.exclude_patterns)
            /\ tasks' = task_list(filenames')
            /\ unit' = [k \in DOMAIN tasks' |-> Queued]
            /\ result' = [k \in DOMAIN tasks' |-> <<>>]
            /\ fault' = [k \in DOMAIN tasks' |-> <<>>]
            /\ pc' = "map"
            /\ UNCHANGED <<standard_error, status>>
    /\ UNCHANGED <<args, disk, stdin, next, raised, standard_out, sys_stderr, started, io, changed_and_error, call>>

\* _format_file on task i up to the end of read_file and the test of an
\* empty source.  A pool worker's sys.stdin is the null device.
read_file(i) ==
    /\ pc = "map"
    /\ i = next
    /\ i <= Len(tasks)
    /\ InFlight < args.jobs
    /\ next' = next + 1
    /\ started' = Append(started, i)
    /\ LET filename == tasks[i] IN
       \/ /\ is_stdin(filename)
          /\ LET source == IF Parallel THEN <<>> ELSE stdin IN
             /\ stdin' = IF Parallel THEN stdin ELSE <<>>
             /\ io' = io \cup {<<"read", i, filename>>}
             /\ IF source = <<>>
                THEN /\ unit' = [unit EXCEPT ![i].phase = "done"]
                     /\ result' = [result EXCEPT ![i] = <<FALSE, FALSE>>]
                     /\ print_to_error(Verbose("name", filename) \o Verbose("unchanged", filename))
                ELSE /\ unit' = [unit EXCEPT ![i] = [phase |-> "read", source |-> source]]
                     /\ result' = result
                     /\ print_to_error(Verbose("name", filename))
             /\ UNCHANGED <<pc, raised, fault>>
       \/ /\ ~is_stdin(filename)
          /\ \E readable \in BOOLEAN :
                IF isdir(filename) \/ ~readable
                THEN /\ Raise(i, "read", "IOError")
                     /\ print_to_error(Verbose("name", filename) \o Diagnostic("IOError", filename))
                     /\ UNCHANGED <<io, stdin>>
                ELSE /\ io' = io \cup {<<"read", i, filename>>}
                     /\ IF disk[filename] = <<>>
                        THEN /\ unit' = [unit EXCEPT ![i].phase = "done"]
                             /\ result' = [result EXCEPT ![i] = <<FALSE, FALSE>>]
                             /\ print_to_error(Verbose("name", filename) \o Verbose("unchanged", filename))
                        ELSE /\ unit' = [unit EXCEPT ![i] = [phase |-> "read", source |-> disk[filename]]]
                             /\ result' = result
                             /\ print_to_error(Verbose("name", filename))
                     /\ UNCHANGED <<pc, raised, fault, stdin>>
    /\ UNCHANGED <<args, disk, filenames, tasks, standard_out, changed_and_error, status, call>>

\* The rest of format_file on task i (format_code and the output action)
\* and of _format_file (the handlers, the verbose report, the pair).
format_file(i) ==
    /\ pc = "map"
    /\ i \in DOMAIN unit
    /\ unit[i].phase = "read"
    /\ LET filename == tasks[i]
           source == unit[i].source
           formatted_source == format_code(source, args.aggressive, args.remove_all_unused_imports, args.remove_unused_variables, args.sort_imports, args.add_trailing_comma)
           action == output_action(filename, args.in_place, source, formatted_source)
           writes == action \in {"write", "write+diff"}
           prints == action \in {"stdout", "diff", "write+diff"}
           text == IF action = "stdout"
                   THEN [kind |-> "text", task |-> i, name |-> filename, from |-> <<>>, to |-> formatted_source]
                   ELSE [kind |-> "diff", task |-> i, name |-> filename, from |-> source, to |-> formatted_source]
       IN
       \/ \E exception \in Exceptions :
             /\ Raise(i, "fix", exception)
             /\ print_to_error(Diagnostic(exception, filename))
             /\ UNCHANGED <<disk, io, standard_out>>
       \/ /\ writes
          /\ Raise(i, "write", "IOError")
          /\ print_to_error(Diagnostic("IOError", filename))
          /\ UNCHANGED <<disk, io, standard_out>>
       \/ /\ prints
          /\ Parallel
          /\ Raise(i, "print", "Exception")
          /\ UNCHANGED <<disk, io, standard_out, standard_error, sys_stderr>>
       \/ /\ prints => ~Parallel
          /\ disk' = IF writes THEN [disk EXCEPT ![filename] = formatted_source] ELSE disk
          /\ io' = IF writes THEN io \cup {<<"write", i, filename>>} ELSE io
          /\ standard_out' = IF prints THEN Append(standard_out, text) ELSE standard_out
          /\ unit' = [unit EXCEPT ![i].phase = "done"]
          /\ result' = [result EXCEPT ![i] = <<changed_by(action), FALSE>>]
          /\ print_to_error(Verbose(IF changed_by(action) THEN "changed" ELSE "unchanged", filename))
          /\ UNCHANGED <<pc, raised, fault>>
    /\ UNCHANGED <<args, stdin, filenames, tasks, next, started, changed_and_error, status, call>>

\* The end of format_multiple_files, once every task has returned, and the
\* return of _main.
format_multiple_files ==
    /\ pc = "map"
    /\ next > Len(tasks)
    /\ InFlight = 0
    /\ IF raised
       THEN /\ pc' = "raised"
            /\ UNCHANGED <<changed_and_error, status>>
       ELSE /\ changed_and_error' = reduce(result)
            /\ status' = exit_status(changed_and_error')
            /\ pc' = "exit"
    /\ UNCHANGED <<args, disk, stdin, filenames, tasks, next, unit, result, raised, fault, standard_out, standard_error, sys_stderr, started, io, call>>

Next ==
    \/ _main
    \/ \E i \in DOMAIN tasks : read_file(i)
    \/ \E i \in DOMAIN tasks : format_file(i)
    \/ format_multiple_files

Spec == Init /\ [][Next]_vars

(***************************************************************************)
(* format_code on its own: any options, any text of at most MaxLen lines.  *)
(***************************************************************************)
InitFormat ==
    /\ args \in {a \in Namespaces : a.files = <<"a.py">> /\ ~a.in_place /\ ~a.recursive /\ a.jobs = 1 /\ ~a.verbose}
    /\ call \in [source : Texts, fixes : {<<>>}, formatted_source : {<<>>}, done : {FALSE}]
    /\ disk = [f \in DiskFiles |-> <<>>]
    /\ stdin = <<>>
    /\ pc = "format_code"
    /\ Idle

FormatCode ==
    /\ pc = "format_code"
    /\ LET fixes == formatters(args.aggressive, args.remove_all_unused_imports, args.remove_unused_variables, args.sort_imports, args.add_trailing_comma) IN
       call' = [source |-> call.source,
                fixes |-> [k \in DOMAIN fixes |-> fixes[k].fn],
                formatted_source |-> format_code(call.source, args.aggressive, args.remove_all_unused_imports, args.remove_unused_variables, args.sort_imports, args.add_trailing_comma),
                done |-> TRUE]
    /\ pc' = "formatted"
    /\ UNCHANGED <<args, disk, stdin, filenames, tasks, next, unit, result, raised, fault, standard_out, standard_error, sys_stderr, started, io, changed_and_error, status>>

NextFormat == FormatCode

SpecFormat == InitFormat /\ [][NextFormat]_vars

(***************************************************************************)
(* Properties.                                                             *)
(***************************************************************************)
Valid(a) ==
    /\ ~(a.jobs > 1 /\ ~a.in_place)
    /\ a.aggressive = 0 =>
          ~(a.remove_all_unused_imports \/ a.remove_unused_variables \/ a.add_trailing_comma)

Faulted(i, exception) == fault[i] # <<>> /\ fault[i][2] = exception

ErrorSink == IF Parallel THEN sys_stderr ELSE standard_error

Formatted(source) ==
    format_code(source, args.aggressive, args.remove_all_unused_imports, args.remove_unused_variables, args.sort_imports, args.add_trailing_comma)

\* C1: when the flags pass validation and _main returns, its status is 1
\* exactly when some file's pair has the error flag set and 0 otherwise; the
\* changed flags play no part.
C1_ExitStatus ==
    (pc = "exit" /\ Valid(args)) =>
        /\ status \in {0, 1}
        /\ status = 1 <=> \E k \in DOMAIN result : result[k] # <<>> /\ result[k][2]

C1_Witness ==
    /\ pc = "exit"
    /\ status = 0
    /\ \E k \in DOMAIN result : result[k] = <<TRUE, FALSE>>

\* C2: when the flags fail validation, _main returns 2 and until then no
\* file is read or written, no task is created or started and nothing is
\* written to standard_out.
C2_ValidationAborts ==
    ~Valid(args) =>
        /\ pc \in {"main", "exit"}
        /\ pc = "exit" => status = 2
        /\ io = {}
        /\ tasks = <<>>
        /\ started = <<>>
        /\ standard_out = <<>>

C2_Witness ==
    /\ pc = "exit"
    /\ status = 2
    /\ args.jobs > 1
    /\ ~args.in_place
    /\ args.aggressive > 0

\* C3: an I/O error on a file gives that file the pair (False, True) and
\* never ends the batch; when format_multiple_files returns from a batch
\* with such a file, every resolved file was processed and the pair returned
\* is (OR of the changed flags, OR of the error flags).
C3_BatchContinues ==
    /\ \A i \in DOMAIN fault : Faulted(i, "IOError") => result[i] = <<FALSE, TRUE>>
    /\ (pc = "raised" \/ raised) => \E i \in DOMAIN fault : Faulted(i, "Exception")
    /\ (pc = "exit" /\ \E i \in DOMAIN fault : Faulted(i, "IOError")) =>
          /\ Len(tasks) = Len(filenames)
          /\ Range(started) = DOMAIN filenames
          /\ \A k \in DOMAIN filenames : unit[k].phase = "done" /\ result[k] # <<>>
          /\ changed_and_error = << \E k \in DOMAIN result : result[k][1],
                                    \E k \in DOMAIN result : result[k][2] >>

C3_Witness ==
    /\ pc = "exit"
    /\ Len(tasks) = 2
    /\ fault[1] = <<"read", "IOError">>
    /\ result[2] = <<TRUE, FALSE>>
    /\ changed_and_error = <<TRUE, TRUE>>
    /\ status = 1

\* C4: when format_file returns for a file that is not stdin and whose text
\* is not empty, then: the formatted text equals the source, nothing is
\* written and it returns False; or they differ with in_place, the file is
\* overwritten with the formatted text, standard_out is left alone and it
\* returns True; or they differ without in_place, the diff is appended to
\* standard_out, the disk is left alone and it returns True.
C4_OutputAction ==
    [][\A i \in DOMAIN unit :
          (/\ unit[i].phase = "read"
           /\ unit'[i].phase = "done"
           /\ fault'[i] = <<>>
           /\ ~is_stdin(tasks[i]))
          => LET source == unit[i].source
                 formatted_source == Formatted(source)
             IN  /\ source # <<>>
                 /\ source = formatted_source =>
                       /\ result'[i] = <<FALSE, FALSE>>
                       /\ disk' = disk
                       /\ standard_out' = standard_out
                 /\ (source # formatted_source /\ args.in_place) =>
                       /\ result'[i] = <<TRUE, FALSE>>
                       /\ disk' = [disk EXCEPT ![tasks[i]] = formatted_source]
                       /\ standard_out' = standard_out
                 /\ (source # formatted_source /\ ~args.in_place) =>
                       /\ result'[i] = <<TRUE, FALSE>>
                       /\ disk' = disk
                       /\ Len(standard_out') = Len(standard_out) + 1
                       /\ standard_out'[Len(standard_out')].kind = "diff"
                       /\ standard_out'[Len(standard_out')].name = tasks[i]
                       /\ SubSeq(standard_out', 1, Len(standard_out)) = standard_out
      ]_vars

C4_Witness ==
    /\ args.in_place
    /\ \E i \in DOMAIN tasks :
          /\ tasks[i] = "a.py"
          /\ unit[i].source = <<"style">>
          /\ result[i] = <<TRUE, FALSE>>
          /\ <<"write", i, "a.py">> \in io
          /\ disk["a.py"] = <<"ok">>
    /\ standard_out = <<>>

\* C5 as claimed: with in_place and the name "-", whatever the text read,
\* format_file writes the formatted text to standard_out and returns True.
C5_AnyText ==
    \A i \in DOMAIN unit :
       (/\ is_stdin(tasks[i])
        /\ args.in_place
        /\ unit[i].phase = "done"
        /\ fault[i] = <<>>)
       => /\ result[i] = <<TRUE, FALSE>>
          /\ \E k \in DOMAIN standard_out :
                /\ standard_out[k].task = i
                /\ standard_out[k].kind = "text"
                /\ standard_out[k].to = Formatted(unit[i].source)

\* C5: with in_place and the name "-", for any text read that is not empty,
\* also one equal to its formatted form, format_file writes the formatted
\* text to standard_out and returns True; on an empty text it writes
\* nothing and returns False.
C5_NonEmptyText ==
    \A i \in DOMAIN unit :
       (/\ is_stdin(tasks[i])
        /\ args.in_place
        /\ unit[i].phase = "done"
        /\ fault[i] = <<>>)
       => IF unit[i].source # <<>>
          THEN /\ result[i] = <<TRUE, FALSE>>
               /\ \E k \in DOMAIN standard_out :
                     /\ standard_out[k].task = i
                     /\ standard_out[k].kind = "text"
                     /\ standard_out[k].to = Formatted(unit[i].source)
          ELSE /\ result[i] = <<FALSE, FALSE>>
               /\ \A k \in DOMAIN standard_out : standard_out[k].task # i

C5_Witness ==
    /\ args.in_place
    /\ \E i \in DOMAIN tasks :
          /\ is_stdin(tasks[i])
          /\ unit[i].source = <<"ok">>
          /\ result[i] = <<TRUE, FALSE>>
          /\ \E k \in DOMAIN standard_out :
                standard_out[k].task = i /\ standard_out[k].to = <<"ok">>

\* The six stages in the order of the contract, and which of them the
\* options select.
StageOrder == <<"autoflake", "add_trailing_comma", "autopep8", "docformatter", "unify", "isort">>

Selected(stage) ==
    CASE stage = "autoflake" -> args.aggressive >= 1
      [] stage = "add_trailing_comma" -> args.aggressive >= 1 /\ args.add_trailing_comma
      [] stage = "isort" -> args.sort_imports
      [] OTHER -> TRUE

Stage(name, code) ==
    CASE name = "autoflake" -> autoflake_fix_code(code, args.remove_all_unused_imports, args.remove_unused_variables)
      [] name = "add_trailing_comma" -> add_trailing_comma_to_code(code)
      [] name = "autopep8" -> autopep8_fix_code(code)
      [] name = "docformatter" -> docformatter_format_code(code)
      [] name = "unify" -> unify_format_code(code)
      [] name = "isort" -> _format_by_isort(code)

RECURSIVE FoldLeft(_, _)
FoldLeft(names, code) ==
    IF names = <<>> THEN code ELSE FoldLeft(Tail(names), Stage(Head(names), code))

\* C6: format_code runs exactly the selected stages, each once, in the
\* order autoflake, add-trailing-comma, autopep8, docformatter, unify,
\* isort, each on the output of the one before; the trailing-comma stage
\* comes before autopep8 and isort comes last.
C6_StageOrder ==
    call.done =>
        /\ call.fixes = SelectSeq(StageOrder, Selected)
        /\ call.formatted_source = FoldLeft(SelectSeq(StageOrder, Selected), call.source)
        /\ \A j, k \in DOMAIN call.fixes :
              (call.fixes[j] = "add_trailing_comma" /\ call.fixes[k] = "autopep8") => j < k
        /\ args.sort_imports => call.fixes[Len(call.fixes)] = "isort"

C6_Witness ==
    /\ call.done
    /\ args.aggressive >= 1
    /\ args.add_trailing_comma
    /\ args.sort_imports
    /\ call.source = <<"comma", "unsorted">>
    /\ call.formatted_source = <<"ok", "ok">>
    /\ call.fixes = StageOrder

\* C7 as claimed: a stage raising any error, I/O-class or not, gives the
\* file the pair (False, True) and a diagnostic on the error sink, and the
\* error does not leave the batch.
C7_AnyStageError ==
    \A i \in DOMAIN fault :
       (fault[i] # <<>> /\ fault[i][1] = "fix" /\ fault[i][2] \in {"IOError", "Exception"})
       => /\ result[i] = <<FALSE, TRUE>>
          /\ \E k \in DOMAIN ErrorSink : ErrorSink[k] = Entry("error", tasks[i])
          /\ pc # "raised"
          /\ ~raised

\* C7: a stage raising an I/O-class error gives the file the pair
\* (False, True) and a diagnostic on the error sink, the error stays in
\* _format_file and the batch runs to its end; a stage raising any other
\* error (a user interrupt aside) leaves _format_file and
\* format_multiple_files: the file gets no pair and no diagnostic, _main
\* returns no status, and a sequential run starts no further file.
C7_StageError ==
    /\ \A i \in DOMAIN fault :
          fault[i] = <<"fix", "IOError">> =>
             /\ result[i] = <<FALSE, TRUE>>
             /\ \E k \in DOMAIN ErrorSink : ErrorSink[k] = Entry("error", tasks[i])
    /\ \A i \in DOMAIN fault :
          fault[i] = <<"fix", "Exception">> =>
             /\ result[i] = <<>>
             /\ \/ \A k \in DOMAIN ErrorSink : ErrorSink[k] # Entry("error", tasks[i])
                \/ \E j \in DOMAIN fault : j # i /\ tasks[j] = tasks[i] /\ Faulted(j, "IOError")
             /\ status = -1
             /\ pc # "exit"
             /\ IF Parallel THEN raised ELSE pc = "raised" /\ next = i + 1
    /\ (pc = "raised" \/ raised) => \E i \in DOMAIN fault : Faulted(i, "Exception")

C7_Witness ==
    /\ pc = "raised"
    /\ ~Parallel
    /\ Len(tasks) = 2
    /\ fault[1] = <<"fix", "Exception">>
    /\ unit[2].phase = "queued"
    /\ result = << <<>>, <<>> >>

RECURSIVE FirstOccurrences(_)
FirstOccurrences(s) ==
    IF s = <<>>
    THEN <<>>
    ELSE LET front == FirstOccurrences(SubSeq(s, 1, Len(s) - 1))
         IN  IF s[Len(s)] \in Range(front) THEN front ELSE Append(front, s[Len(s)])

StartedNames == [k \in DOMAIN started |-> tasks[started[k]]]

\* C9 as claimed: with jobs == 1 the files are processed in the order of
\* the files arguments of the command line.
C9_ArgumentOrder ==
    args.jobs = 1 =>
        StartedNames = SubSeq(find_files(FirstOccurrences(args.files), args.recursive, args.exclude_patterns), 1, Len(started))

\* C9: with jobs == 1 the files are processed one at a time in the order
\* of the list find_files resolved from the names format_multiple_files was
\* given, and the pairs and the diffs on standard_out come in that order;
\* _main gives it set(args.files), whose order is not that of the
\* arguments.
C9_ResolvedOrder ==
    args.jobs = 1 =>
        /\ InFlight <= 1
        /\ StartedNames = SubSeq(filenames, 1, Len(started))
        /\ started = [k \in 1..Len(started) |-> k]
        /\ \A k \in DOMAIN result : result[k] # <<>> => k \in Range(started)
        /\ \A j \in DOMAIN result : \A k \in DOMAIN result :
              (j < k /\ result[k] # <<>>) => (result[j] # <<>> \/ pc = "raised")
        /\ \A j \in DOMAIN standard_out : \A k \in DOMAIN standard_out :
              j < k => standard_out[j].task < standard_out[k].task
        /\ \A k \in DOMAIN standard_out : standard_out[k].name = filenames[standard_out[k].task]

C9_Witness ==
    /\ args.jobs = 1
    /\ pc = "exit"
    /\ filenames = <<"d/b.py", "a.py">>
    /\ Len(standard_out) = 2
    /\ standard_out[1].name = "d/b.py"
    /\ standard_out[2].name = "a.py"

\* C10 as claimed: in a parallel run no file on disk is written by two
\* tasks of the run.
C10_SingleWriter ==
    Parallel =>
        \A e1 \in io : \A e2 \in io :
           (e1[1] = "write" /\ e2[1] = "write" /\ e1[3] = e2[3]) => e1[2] = e2[2]

====
